---------------------------- MODULE Spec2Model ----------------------------
(***************************************************************************)
(* Audio post-processing and demo assembly of the NaijaTTS repository:     *)
(*   engines/mms_tts.py, engines/xtts_engine.py  (_soft_limit,             *)
(*        _trim_trailing_silence, MMSTTSEngine)                            *)
(*   scripts/multilang_demo.py, scripts/simple_demo.py (synthesize_segment,*)
(*        main)                                                            *)
(*                                                                         *)
(* Samples are floats in the code.  Here a sample is an integer code on a  *)
(* two-tier fixed-point grid that is monotone in the sample's value:       *)
(*     |v| <  Tier : the value is v * 1e-11   (the sub-1e-8 tier; the      *)
(*                   silence guard 1e-9 of _soft_limit is the code 100)    *)
(*     |v| >= Tier : the value is (v / Tier) * 1e-4, v a multiple of Tier  *)
(* so that comparisons of samples are comparisons of codes, 1.0 is the     *)
(* code ONE, and products stay inside TLC's 32-bit integers.               *)
(***************************************************************************)
EXTENDS Integers, Sequences, FiniteSets, TLC

VARIABLES
    \* ---- one call of a post-processing function (SpecDsp)
    fn,          \* "none" | "soft_limit" | "trim": the function called
    dpc,         \* "idle" | "call" | "ret" | "ret2": position of the call
    x,           \* the input buffer
    target_peak, \* _soft_limit's target_peak
    sr,          \* _trim_trailing_silence's sr
    thresh,      \* _trim_trailing_silence's thresh
    max_ms,      \* _trim_trailing_silence's max_ms
    y,           \* the returned buffer
    y2,          \* the buffer returned by trimming y again
    \* ---- one run of a demo script's main() (Spec, SpecSimple)
    script,      \* "none" | "multilang" | "simple": the script that runs
    pc,          \* position of the run: "idle", "start", "loop", "segment",
                 \*   "seg_return", "seg_raise", "concat", "post", "write",
                 \*   "validate", "done"
    avail,       \* mms_engine._available_languages
    voice_files, \* number of WAV files find_voice_files() returns
    line_no,     \* 1-based index into LINES of the line being synthesized
    lang,        \* the language argument of the running synthesize_segment
    depth,       \* how many times synthesize_segment has called itself
    ret,         \* the (audio, sr) pair synthesize_segment returned
    segments,    \* the list of (audio, sr) pairs
    assembled,   \* whether np.concatenate has run
    final_audio, \* the assembled buffer
    target_sr,   \* segments[0][1]
    written,     \* whether sf.write(output_path, ...) has run
    artifact,    \* what sf.write put at output_path
    exit_code,   \* -1 while running; the exit status of the process after
    outcome,     \* why main() ended
    failed,      \* index of the line whose synthesis raised (0: none)
    \* ---- calls of the engines' synthesize_to_wav (SpecEng)
    models,      \* the languages in MMSTTSEngine._models
    xtts_model,  \* whether XTTSEngine._model is set
    loads,       \* per model, how often get_model / the model property
                 \*   called its constructor
    invocations, \* how often a model was run on a text
    files,       \* how many files tempfile.mkstemp created
    ncalls,      \* how many calls of synthesize_to_wav were made
    ecall,       \* the arguments of the last call
    eresult,     \* how the last call ended: "none", "ok" or the error
    \* ---- construction of an MMSTTSEngine (SpecMms)
    constructed, \* whether MMSTTSEngine.__init__ has returned
    library,     \* whether transformers' pipeline and torch were imported
    probes,      \* the probes _detect_available_models made, in order
    \* ---- one call of utils.textnorm.normalize (SpecNorm)
    npc,         \* "idle" | "call" | "ret"
    ntext,       \* the argument, a sequence of characters
    nout,        \* the returned string
    \* ---- the HTTP service of backend/app.py (SpecApp)
    voice_dir,   \* the names of the WAV files in VOICE_DIR
    default_speaker, \* DEFAULT_SPEAKER ("" when the variable is not set)
    nreq,        \* how many requests were handled
    req,         \* the last request
    resp         \* the answer to it

dspvars == <<fn, dpc, x, target_peak, sr, thresh, max_ms, y, y2>>

runvars == <<script, pc, avail, voice_files, line_no, lang, depth, ret, segments,
             assembled, final_audio, target_sr, written, artifact,
             exit_code, outcome, failed>>

engvars == <<models, xtts_model, loads, invocations, files, ncalls, ecall,
             eresult, constructed, library, probes>>

appvars == <<npc, ntext, nout, voice_dir, default_speaker, nreq, req, resp>>

vars == <<dspvars, runvars, engvars, appvars>>

-----------------------------------------------------------------------------
(* Sample arithmetic *)

Tier == 1000

ONE == 10000 * Tier

Abs(v) == IF v < 0 THEN -v ELSE v

Sign(v) == IF v < 0 THEN -1 ELSE 1

Min(a, b) == IF a <= b THEN a ELSE b

SetMax(S) == CHOOSE m \in S : \A o \in S : o <= m

\* the value in units of 1e-4 (0 for the sub-1e-8 tier)
Hi(v) == Abs(v) \div Tier

\* np.max(np.abs(x)) of a non-empty buffer
MaxAbs(b) == SetMax({Abs(b[i]) : i \in 1..Len(b)})

\* v * (num / den): the product x * scale with scale = num / den, den > 0 on
\* the 1e-4 tier; a result under 1e-4 of a 1e-4-tier sample flushes to 0
Scaled(v, num, den) ==
    IF Abs(v) < Tier
    THEN Sign(v) * Min(Tier - 1, (Abs(v) * Hi(num)) \div Hi(den))
    ELSE Sign(v) * ((Hi(v) * Hi(num)) \div Hi(den)) * Tier

\* tanh(z) for z >= 0 in units of 1e-4, by Lambert's continued fraction
\*   tanh z = z / (1 + z^2 / (3 + z^2 / (5 + z^2 / (7 + ...))))
TanhFrac(z2) ==
    LET S == 10000
        d6 == 13 * S
        d5 == 11 * S + (z2 * S) \div d6
        d4 == 9 * S + (z2 * S) \div d5
        d3 == 7 * S + (z2 * S) \div d4
        d2 == 5 * S + (z2 * S) \div d3
        d1 == 3 * S + (z2 * S) \div d2
    IN  S + (z2 * S) \div d1

TanhHi(z) == (z * 10000) \div TanhFrac((z * z) \div 10000)

\* np.tanh(v * 1.1)
Tanh11(v) ==
    IF Abs(v) < Tier
    THEN Sign(v) * Min(Tier - 1, (11 * Abs(v)) \div 10)
    ELSE Sign(v) * TanhHi((11 * Hi(v)) \div 10) * Tier

-----------------------------------------------------------------------------
(* engines/mms_tts.py and engines/xtts_engine.py (the two copies are equal) *)

TARGET_PEAK == 8913000

SilenceGuard == 100

DefaultThresh == 10000

DefaultMaxMs == 200

\* _soft_limit with the scale left at 1.0 for every buffer
soft_limit_noscale(b, tp) ==
    IF Len(b) = 0 THEN b
    ELSE LET max_abs == MaxAbs(b) IN
         IF max_abs < SilenceGuard THEN b
         ELSE [i \in 1..Len(b) |-> Tanh11(b[i])]

\* _soft_limit without the silence guard
soft_limit_noguard(b, tp) ==
    IF Len(b) = 0 THEN b
    ELSE LET max_abs == MaxAbs(b) IN
         [i \in 1..Len(b) |->
            Tanh11(IF max_abs > tp THEN Scaled(b[i], tp, max_abs) ELSE b[i])]

soft_limit(b, tp) ==
    IF Len(b) = 0 THEN b
    ELSE LET max_abs == MaxAbs(b) IN
         IF max_abs < SilenceGuard THEN b
         ELSE [i \in 1..Len(b) |->
                 Tanh11(IF max_abs > tp THEN Scaled(b[i], tp, max_abs) ELSE b[i])]

\* int(sr * max_ms / 1000)
TailSamples(rate, ms) == (rate * ms) \div 1000

\* the Python slice b[:k]
SliceTo(b, k) ==
    IF k >= 0 THEN SubSeq(b, 1, Min(k, Len(b)))
    ELSE SubSeq(b, 1, Len(b) + k)

\* np.where(np.abs(b) > th)[0], as 0-based indices
Where(b, th) == {i - 1 : i \in {j \in 1..Len(b) : Abs(b[j]) > th}}

SetMin(S) == CHOOSE m \in S : \A o \in S : m <= o

\* _trim_trailing_silence that also strips the silence that leads the buffer
trim_both_ends(b, rate, th, ms) ==
    IF Len(b) = 0 THEN b
    ELSE LET idx == Where(b, th) IN
         IF idx = {} THEN SliceTo(b, TailSamples(rate, ms))
         ELSE LET last == SetMax(idx)
                  keep == Min(Len(b), last + TailSamples(rate, ms))
              IN  SubSeq(b, SetMin(idx) + 1, keep)

\* _trim_trailing_silence that returns a fully silent buffer whole
trim_silent_whole(b, rate, th, ms) ==
    IF Len(b) = 0 THEN b
    ELSE LET idx == Where(b, th) IN
         IF idx = {} THEN b
         ELSE LET last == SetMax(idx)
                  keep == Min(Len(b), last + TailSamples(rate, ms))
              IN  SliceTo(b, keep)

trim_trailing_silence(b, rate, th, ms) ==
    IF Len(b) = 0 THEN b
    ELSE LET idx == Where(b, th) IN
         IF idx = {} THEN SliceTo(b, TailSamples(rate, ms))
         ELSE LET last == SetMax(idx)
                  keep == Min(Len(b), last + TailSamples(rate, ms))
              IN  SliceTo(b, keep)

-----------------------------------------------------------------------------
(* soundfile: sf.write(path, audio, sr) of a .wav file followed by            *)
(* sf.read(path, dtype="float32")                                             *)

\* The default subtype of a WAV file is PCM_16: a sample is stored in steps of
\* 1/32768, so a sample of the sub-1e-8 tier is read back as 0.
wav_roundtrip(b) == [k \in 1..Len(b) |-> IF Abs(b[k]) < Tier THEN 0 ELSE b[k]]

-----------------------------------------------------------------------------
(* MMSTTSEngine.synthesize_to_wav / XTTSEngine.synthesize_to_wav: the        *)
(* post-processing of the model's output and the file the caller reads back  *)

EngineOutput(raw, rate) ==
    [audio |-> wav_roundtrip(
                 trim_trailing_silence(soft_limit(raw, TARGET_PEAK),
                                       rate, DefaultThresh, DefaultMaxMs)),
     sr |-> rate]

\* MMSTTSEngine.MODEL_MAP's languages
MmsLanguages == {"yor", "hau", "pcm", "ibo", "igb"}

-----------------------------------------------------------------------------
(* scripts/multilang_demo.py and scripts/simple_demo.py *)

MultiLines == <<"en", "pcm", "yor", "ibo", "hau", "en">>

SimpleLines == <<"en", "pcm", "yor", "hau", "en", "pcm", "en">>

LINES == IF script = "simple" THEN SimpleLines ELSE MultiLines

\* the duration check with the lower bound excluded
DurationOk_Strict(len, rate) == 27 * rate < len /\ len <= 33 * rate

\* 27.0 <= final_duration <= 33.0 with final_duration = len / rate
DurationOk(len, rate) == 27 * rate <= len /\ len <= 33 * rate

\* peak_db > -0.5 with peak_db = 20 * log10(max_abs + 1e-9): on the grid,
\* max_abs + 1e-9 > 10^(-0.5/20) = 0.94406... exactly when max_abs > 0.9440
MinusHalfDb == 9440000

PeakTooHigh(max_abs) == max_abs > MinusHalfDb

\* the 0.9 of final_audio * (0.9 / max_val)
Headroom == 9000000

\* v * (0.9 / max_val) for max_val > 0 on either tier
Gained(v, num, max_val) ==
    IF max_val >= Tier THEN Scaled(v, num, max_val)
    ELSE Sign(v) * ((Abs(v) * Hi(num)) \div max_val) * Tier

\* a peak limiter that scales the peak to full scale
peak_limit_full_scale(b) ==
    LET max_val == MaxAbs(b) IN
    IF max_val > 0 THEN [k \in 1..Len(b) |-> Gained(b[k], ONE, max_val)]
    ELSE b

\* "Peak limiting" of main()
peak_limit(b) ==
    LET max_val == MaxAbs(b) IN
    IF max_val > 0 THEN [k \in 1..Len(b) |-> Gained(b[k], Headroom, max_val)]
    ELSE b

\* "Trim trailing silence" of main(): int(0.2 * target_sr) samples of tail
final_trim(b, rate) ==
    LET last_non_silent == Where(b, DefaultThresh) IN
    IF last_non_silent # {}
    THEN SliceTo(b, SetMax(last_non_silent) + (2 * rate) \div 10)
    ELSE b

\* np.interp(np.linspace(0, len(audio), new_length), np.arange(len(audio)),
\* audio) for a non-empty audio, new_length = int(len(audio) * target / rate)
Interp(b, num, den) ==
    LET k == num \div den
        r == num % den
    IN  IF k >= Len(b) - 1 THEN b[Len(b)]
        ELSE LET a == b[k + 1] \div Tier
                 c == b[k + 2] \div Tier
             IN  (a + ((c - a) * r) \div den) * Tier

\* the (target, rate, len) triples, among rates up to 12 and lengths up to 69,
\* for which the double product len * (target / rate) lies below the integer
\* len * target / rate: 55 * (12 / 11) and 55 * (6 / 11) are 59.99999999999999
\* and 29.999999999999996
FloatShort == {<<12, 11, 55>>, <<6, 11, 55>>}

\* ratio = target_sr / sr; new_length = int(len(audio) * ratio)
NewLength(len, rate, target) ==
    IF <<target, rate, len>> \in FloatShort
    THEN (len * target) \div rate - 1
    ELSE (len * target) \div rate

resample(b, rate, target) ==
    LET new_length == NewLength(Len(b), rate, target) IN
    [j \in 1..new_length |->
        IF new_length = 1 THEN b[1]
        ELSE Interp(b, (j - 1) * Len(b), new_length - 1)]

\* a concatenation that resamples every segment, also one at the target rate
RECURSIVE concat_resample_all(_, _, _)
concat_resample_all(segs, k, target) ==
    IF k > Len(segs) THEN << >>
    ELSE resample(segs[k].audio, segs[k].sr, target)
            \o concat_resample_all(segs, k + 1, target)

\* a concatenation that puts the later segments first
RECURSIVE concat_reversed(_, _, _)
concat_reversed(segs, k, target) ==
    IF k > Len(segs) THEN << >>
    ELSE concat_reversed(segs, k + 1, target)
            \o (IF segs[k].sr # target
                THEN resample(segs[k].audio, segs[k].sr, target)
                ELSE segs[k].audio)

RECURSIVE concat_from(_, _, _)
concat_from(segs, k, target) ==
    IF k > Len(segs) THEN << >>
    ELSE (IF segs[k].sr # target
          THEN resample(segs[k].audio, segs[k].sr, target)
          ELSE segs[k].audio) \o concat_from(segs, k + 1, target)

\* np.interp raises ValueError on an empty array of sample points
InterpRaises(segs) ==
    \E k \in 1..Len(segs) : segs[k].sr # segs[1].sr /\ Len(segs[k].audio) = 0

\* main() ends: `return code`, or an exception nobody catches (status 1)
Exit(code, why) ==
    /\ pc' = "done"
    /\ exit_code' = code
    /\ outcome' = why

\* ---- synthesize_segment

\* what the engine's synthesize_to_wav does on a supported request: it raises
\* (the model cannot be loaded or run, the file cannot be written), or the
\* model returns raw audio at some rate
EngineResults(outputs) ==
    {[raised |-> TRUE, audio |-> << >>, sr |-> 0]}
        \cup {[raised |-> FALSE, audio |-> o.audio, sr |-> o.sr] : o \in outputs}

SegRaise ==
    /\ pc' = "seg_raise"
    /\ UNCHANGED <<ret, lang, depth>>

SegReturn(r) ==
    /\ pc' = "seg_return"
    /\ ret' = EngineOutput(r.audio, r.sr)
    /\ UNCHANGED <<lang, depth>>

SegFrame == <<script, avail, voice_files, line_no, segments, assembled,
              final_audio, target_sr, written, artifact, exit_code,
              outcome, failed, dspvars, engvars, appvars>>

\* multilang_demo.synthesize_segment, language == "en": XTTS with the voice
\* files
MultiSegEnglish(outputs) ==
    /\ script = "multilang" /\ pc = "segment" /\ lang = "en"
    /\ \E r \in EngineResults(outputs) :
          IF voice_files = 0 \/ r.raised THEN SegRaise ELSE SegReturn(r)
    /\ UNCHANGED SegFrame

\* multilang_demo.synthesize_segment, language unsupported by MMS: the
\* function calls itself with "en"
MultiSegFallback ==
    /\ script = "multilang" /\ pc = "segment"
    /\ lang # "en" /\ lang \notin avail
    /\ lang' = "en"
    /\ depth' = depth + 1
    /\ UNCHANGED <<pc, ret>>
    /\ UNCHANGED SegFrame

\* multilang_demo.synthesize_segment, language supported by MMS
MultiSegMms(outputs) ==
    /\ script = "multilang" /\ pc = "segment"
    /\ lang # "en" /\ lang \in avail
    /\ \E r \in EngineResults(outputs) :
          IF r.raised THEN SegRaise ELSE SegReturn(r)
    /\ UNCHANGED SegFrame

\* simple_demo.synthesize_segment, language == "en": the Yoruba model stands
\* in, and its absence raises ValueError
SimpleSegEnglish(outputs) ==
    /\ script = "simple" /\ pc = "segment" /\ lang = "en"
    /\ \E r \in EngineResults(outputs) :
          IF "yor" \notin avail \/ r.raised THEN SegRaise ELSE SegReturn(r)
    /\ UNCHANGED SegFrame

\* simple_demo.synthesize_segment, language unsupported by MMS: the function
\* calls itself with "yor"; the interpreter raises RecursionError when the
\* nesting reaches its recursion limit
SimpleSegFallback(limit) ==
    /\ script = "simple" /\ pc = "segment"
    /\ lang # "en" /\ lang \notin avail
    /\ IF depth + 1 > limit
       THEN SegRaise
       ELSE /\ lang' = "yor"
            /\ depth' = depth + 1
            /\ UNCHANGED <<pc, ret>>
    /\ UNCHANGED SegFrame

\* simple_demo.synthesize_segment, language supported by MMS
SimpleSegMms(outputs) ==
    /\ script = "simple" /\ pc = "segment"
    /\ lang # "en" /\ lang \in avail
    /\ \E r \in EngineResults(outputs) :
          IF r.raised THEN SegRaise ELSE SegReturn(r)
    /\ UNCHANGED SegFrame

\* ---- main

MainFrame == <<script, avail, voice_files, dspvars, engvars, appvars>>

\* multilang_demo.main up to the loop: without voice files it returns 1
MultiStart ==
    /\ script = "multilang" /\ pc = "start"
    /\ IF voice_files = 0
       THEN /\ Exit(1, "no_voice_files")
            /\ UNCHANGED line_no
       ELSE /\ pc' = "loop"
            /\ line_no' = 1
            /\ UNCHANGED <<exit_code, outcome>>
    /\ UNCHANGED <<lang, depth, ret, segments, assembled, final_audio,
                   target_sr, written, artifact, failed>>
    /\ UNCHANGED MainFrame

\* simple_demo.main up to the loop
SimpleStart ==
    /\ script = "simple" /\ pc = "start"
    /\ pc' = "loop"
    /\ line_no' = 1
    /\ UNCHANGED <<exit_code, outcome, lang, depth, ret, segments, assembled,
                   final_audio, target_sr, written, artifact, failed>>
    /\ UNCHANGED MainFrame

\* a loop that walks LINES from its end
LoopCall_Reversed ==
    /\ pc = "loop" /\ line_no <= Len(LINES)
    /\ pc' = "segment"
    /\ lang' = LINES[Len(LINES) + 1 - line_no]
    /\ depth' = 0
    /\ UNCHANGED <<line_no, ret, segments, assembled, final_audio, target_sr,
                   written, artifact, exit_code, outcome, failed>>
    /\ UNCHANGED MainFrame

\* for i, (lang, text) in enumerate(LINES, 1): synthesize_segment(text, lang, ...)
LoopCall ==
    /\ pc = "loop" /\ line_no <= Len(LINES)
    /\ pc' = "segment"
    /\ lang' = LINES[line_no]
    /\ depth' = 0
    /\ UNCHANGED <<line_no, ret, segments, assembled, final_audio, target_sr,
                   written, artifact, exit_code, outcome, failed>>
    /\ UNCHANGED MainFrame

\* segments.append((audio, sr)) and the next line
LoopAppend ==
    /\ script # "none" /\ pc = "seg_return"
    /\ segments' = Append(segments, ret)
    /\ line_no' = line_no + 1
    /\ pc' = "loop"
    /\ UNCHANGED <<lang, depth, ret, assembled, final_audio, target_sr,
                   written, artifact, exit_code, outcome, failed>>
    /\ UNCHANGED MainFrame

\* an exception handler that skips the line and goes on with the next one
OnSegmentError_Continue ==
    /\ failed' = line_no
    /\ line_no' = line_no + 1
    /\ pc' = "loop"
    /\ UNCHANGED <<exit_code, outcome>>

\* except Exception as e: ... return 1
OnSegmentError ==
    /\ failed' = line_no
    /\ Exit(1, "synth_error")
    /\ UNCHANGED line_no

LoopExcept ==
    /\ script # "none" /\ pc = "seg_raise"
    /\ OnSegmentError
    /\ UNCHANGED <<lang, depth, ret, segments, assembled, final_audio,
                   target_sr, written, artifact>>
    /\ UNCHANGED MainFrame

\* the loop is over
LoopEnd ==
    /\ pc = "loop" /\ line_no > Len(LINES)
    /\ pc' = "concat"
    /\ UNCHANGED <<line_no, lang, depth, ret, segments, assembled,
                   final_audio, target_sr, written, artifact, exit_code,
                   outcome, failed>>
    /\ UNCHANGED MainFrame

\* an assembly step without the `if not segments` test, for which an empty
\* list is an empty buffer
Concatenate_NoGuard ==
    /\ pc = "concat"
    /\ IF segments # << >> /\ InterpRaises(segments)
       THEN /\ Exit(1, "uncaught_exception")
            /\ target_sr' = segments[1].sr
            /\ UNCHANGED <<assembled, final_audio>>
       ELSE /\ target_sr' = IF segments = << >> THEN 0 ELSE segments[1].sr
            /\ final_audio' = IF segments = << >> THEN << >>
                              ELSE concat_from(segments, 1, segments[1].sr)
            /\ assembled' = TRUE
            /\ pc' = "post"
            /\ UNCHANGED <<exit_code, outcome>>
    /\ UNCHANGED <<line_no, lang, depth, ret, segments, written, artifact,
                   failed>>
    /\ UNCHANGED MainFrame

\* "Concatenate all segments": the target rate, the resampling, np.concatenate
Concatenate ==
    /\ pc = "concat"
    /\ IF segments = << >>
       THEN /\ Exit(1, "no_segments")
            /\ UNCHANGED <<assembled, final_audio, target_sr>>
       ELSE IF InterpRaises(segments)
       THEN /\ Exit(1, "uncaught_exception")
            /\ target_sr' = segments[1].sr
            /\ UNCHANGED <<assembled, final_audio>>
       ELSE /\ target_sr' = segments[1].sr
            /\ final_audio' = concat_from(segments, 1, segments[1].sr)
            /\ assembled' = TRUE
            /\ pc' = "post"
            /\ UNCHANGED <<exit_code, outcome>>
    /\ UNCHANGED <<line_no, lang, depth, ret, segments, written, artifact,
                   failed>>
    /\ UNCHANGED MainFrame

\* "Final post-processing": np.max of an empty array raises ValueError
PostProcess ==
    /\ pc = "post"
    /\ IF Len(final_audio) = 0
       THEN /\ Exit(1, "uncaught_exception")
            /\ UNCHANGED final_audio
       ELSE /\ final_audio' = final_trim(peak_limit(final_audio), target_sr)
            /\ pc' = "write"
            /\ UNCHANGED <<exit_code, outcome>>
    /\ UNCHANGED <<line_no, lang, depth, ret, segments, assembled, target_sr,
                   written, artifact, failed>>
    /\ UNCHANGED MainFrame

\* the verdict of "Validation" on a non-empty buffer
Verdict(audio, rate) ==
    IF ~DurationOk(Len(audio), rate) THEN "duration"
    ELSE IF PeakTooHigh(MaxAbs(audio)) THEN "peak"
    ELSE "ok"

\* a main() that writes the file only when the buffer passes validation
WriteFile_IfValid ==
    /\ pc = "write"
    /\ IF Len(final_audio) > 0 /\ Verdict(final_audio, target_sr) = "ok"
       THEN /\ written' = TRUE
            /\ artifact' = [audio |-> wav_roundtrip(final_audio),
                            sr |-> target_sr]
       ELSE UNCHANGED <<written, artifact>>
    /\ pc' = "validate"
    /\ UNCHANGED <<line_no, lang, depth, ret, segments, assembled,
                   final_audio, target_sr, exit_code, outcome, failed>>
    /\ UNCHANGED MainFrame

\* sf.write(output_path, final_audio, target_sr)
WriteFile ==
    /\ pc = "write"
    /\ written' = TRUE
    /\ artifact' = [audio |-> wav_roundtrip(final_audio), sr |-> target_sr]
    /\ pc' = "validate"
    /\ UNCHANGED <<line_no, lang, depth, ret, segments, assembled,
                   final_audio, target_sr, exit_code, outcome, failed>>
    /\ UNCHANGED MainFrame

\* "Validation": the duration and the peak level decide the return value;
\* np.max of an empty array raises ValueError
Validate ==
    /\ pc = "validate"
    /\ IF Len(final_audio) = 0
       THEN Exit(1, "uncaught_exception")
       ELSE LET v == Verdict(final_audio, target_sr) IN
            Exit(IF v = "ok" THEN 0 ELSE 1, v)
    /\ UNCHANGED <<line_no, lang, depth, ret, segments, assembled,
                   final_audio, target_sr, written, artifact, failed>>
    /\ UNCHANGED MainFrame

-----------------------------------------------------------------------------
(* MMSTTSEngine.synthesize_to_wav and XTTSEngine.synthesize_to_wav as calls  *)
(* on an engine object.  A text is a sequence of characters; speaker_wavs is *)
(* a sequence with, for each path, whether the file exists.                  *)

\* the characters str.strip() removes
IsSpace(c) == c \in {" ", "\t", "\n"}

\* a test that looks at the emptiness of the text only
Blank_EmptyOnly(text) == Len(text) = 0

\* not text or not text.strip()
Blank(text) == Len(text) = 0 \/ \A k \in 1..Len(text) : IsSpace(text[k])

\* the models: one per MMS language, and the XTTS model
ModelNames == MmsLanguages \cup {"xtts"}

EngIdle ==
    /\ models = {} /\ xtts_model = FALSE
    /\ loads = [m \in ModelNames |-> 0]
    /\ invocations = 0 /\ files = 0 /\ ncalls = 0
    /\ ecall = [engine |-> "none", text |-> << >>, language |-> "",
                voices |-> << >>]
    /\ eresult = "none"
    /\ constructed = TRUE /\ library = TRUE /\ probes = << >>

\* what the library does in a call: whether the constructor of the model
\* returns, whether the model runs on the text, and whether the first
\* sf.write succeeds
LibraryOutcomes ==
    [load_ok : BOOLEAN, run_ok : BOOLEAN, write_ok : BOOLEAN]

\* the engine after a call that raised before touching anything
Rejected(why) ==
    /\ eresult' = why
    /\ UNCHANGED <<models, xtts_model, loads, invocations, files>>

\* MMSTTSEngine.synthesize_to_wav(text, language) with out_path = None
MmsSynthesize(text, language) ==
    /\ ncalls' = ncalls + 1
    /\ ecall' = [engine |-> "mms", text |-> text, language |-> language,
                 voices |-> << >>]
    /\ UNCHANGED xtts_model
    /\ IF Blank(text) THEN Rejected("text_required")
       ELSE IF language \notin avail THEN Rejected("unsupported_language")
       ELSE \E o \in LibraryOutcomes :
              LET cached == language \in models
                  got == cached \/ o.load_ok
              IN  /\ loads' = IF cached THEN loads
                              ELSE [loads EXCEPT ![language] = @ + 1]
                  /\ models' = IF got THEN models \cup {language} ELSE models
                  /\ invocations' = IF got THEN invocations + 1
                                    ELSE invocations
                  /\ files' = IF got /\ o.run_ok /\ ~o.write_ok
                              THEN files + 2 ELSE files + 1
                  /\ eresult' = IF ~got THEN "model_error"
                                ELSE IF ~o.run_ok THEN "synthesis_error"
                                ELSE "ok"

\* an XTTS call without the test of speaker_wavs: an empty list is noticed
\* only by speaker_wavs[0], after the model was loaded
XttsSynthesize_NoVoiceCheck(text, voices) ==
    /\ ncalls' = ncalls + 1
    /\ ecall' = [engine |-> "xtts", text |-> text, language |-> "en",
                 voices |-> voices]
    /\ UNCHANGED models
    /\ IF Blank(text) THEN Rejected("text_required")
       ELSE IF \E k \in 1..Len(voices) : ~voices[k]
       THEN Rejected("speaker_not_found")
       ELSE \E o \in LibraryOutcomes :
              LET got == xtts_model \/ o.load_ok
                  ran == got /\ Len(voices) > 0
              IN  /\ loads' = IF xtts_model THEN loads
                              ELSE [loads EXCEPT !["xtts"] = @ + 1]
                  /\ xtts_model' = got
                  /\ invocations' = IF ran THEN invocations + 1
                                    ELSE invocations
                  /\ files' = files + 1
                  /\ eresult' = IF ~got THEN "model_error"
                                ELSE IF ~(ran /\ o.run_ok /\ o.write_ok)
                                THEN "synthesis_error"
                                ELSE "ok"

\* XTTSEngine.synthesize_to_wav(text, speaker_wavs) with out_path = None
XttsSynthesize(text, voices) ==
    /\ ncalls' = ncalls + 1
    /\ ecall' = [engine |-> "xtts", text |-> text, language |-> "en",
                 voices |-> voices]
    /\ UNCHANGED models
    /\ IF Blank(text) THEN Rejected("text_required")
       ELSE IF Len(voices) = 0 THEN Rejected("no_speaker_wavs")
       ELSE IF \E k \in 1..Len(voices) : ~voices[k]
       THEN Rejected("speaker_not_found")
       ELSE \E o \in LibraryOutcomes :
              LET got == xtts_model \/ o.load_ok IN
              /\ loads' = IF xtts_model THEN loads
                          ELSE [loads EXCEPT !["xtts"] = @ + 1]
              /\ xtts_model' = got
              /\ invocations' = IF got THEN invocations + 1
                                ELSE invocations
              /\ files' = files + 1
              /\ eresult' = IF ~got THEN "model_error"
                            ELSE IF ~(o.run_ok /\ o.write_ok)
                            THEN "synthesis_error"
                            ELSE "ok"

-----------------------------------------------------------------------------
(* MMSTTSEngine: construction, is_language_supported and get_model *)

\* the keys of MODEL_MAP in the order of the dict
ProbeOrder == <<"yor", "hau", "pcm", "ibo", "igb">>

\* a probing loop without the try/except around each probe: the first
\* failing probe ends it
RECURSIVE detect_until_failure(_, _, _)
detect_until_failure(lib, outcomes, k) ==
    IF ~lib \/ k > Len(ProbeOrder) THEN << >>
    ELSE IF ~outcomes[ProbeOrder[k]]
    THEN <<[lang |-> ProbeOrder[k], ok |-> FALSE]>>
    ELSE <<[lang |-> ProbeOrder[k], ok |-> TRUE]>>
            \o detect_until_failure(lib, outcomes, k + 1)

\* _detect_available_models: the probes made from the k-th key on; none when
\* pipeline or torch is missing, else one per key whatever the others did
RECURSIVE detect_available_models(_, _, _)
detect_available_models(lib, outcomes, k) ==
    IF ~lib \/ k > Len(ProbeOrder) THEN << >>
    ELSE <<[lang |-> ProbeOrder[k], ok |-> outcomes[ProbeOrder[k]]]>>
            \o detect_available_models(lib, outcomes, k + 1)

\* available.add(lang) for the probes that did not raise
AvailableOf(log) == {log[k].lang : k \in {j \in 1..Len(log) : log[j].ok}}

\* MMSTTSEngine.__init__
Construct(lib, outcomes) ==
    /\ constructed' = TRUE
    /\ library' = lib
    /\ probes' = detect_available_models(lib, outcomes, 1)
    /\ avail' = AvailableOf(detect_available_models(lib, outcomes, 1))
    /\ models' = {}
    /\ UNCHANGED <<xtts_model, loads, invocations, files, ncalls, ecall,
                   eresult>>

\* is_language_supported(language)
MmsIsSupported(language) ==
    /\ ncalls' = ncalls + 1
    /\ ecall' = [engine |-> "mms_is_language_supported", text |-> << >>,
                 language |-> language, voices |-> << >>]
    /\ eresult' = IF language \in avail THEN "true" ELSE "false"
    /\ UNCHANGED <<models, xtts_model, loads, invocations, files>>

\* a get_model that constructs the pipeline on every call
MmsGetModel_NoCache(language) ==
    /\ ncalls' = ncalls + 1
    /\ ecall' = [engine |-> "mms_get_model", text |-> << >>,
                 language |-> language, voices |-> << >>]
    /\ UNCHANGED <<xtts_model, invocations, files>>
    /\ IF language \notin avail
       THEN /\ eresult' = "unsupported_language"
            /\ UNCHANGED <<models, loads, avail>>
       ELSE \E load_ok \in BOOLEAN :
              /\ loads' = [loads EXCEPT ![language] = @ + 1]
              /\ models' = IF load_ok THEN models \cup {language} ELSE models
              /\ eresult' = IF load_ok THEN "ok" ELSE "model_error"
              /\ UNCHANGED avail

\* a get_model that tries the model map for a language the probing missed
\* and registers the language when the model loads
MmsGetModel_Registering(language) ==
    /\ ncalls' = ncalls + 1
    /\ ecall' = [engine |-> "mms_get_model", text |-> << >>,
                 language |-> language, voices |-> << >>]
    /\ UNCHANGED <<xtts_model, invocations, files>>
    /\ IF language \notin MmsLanguages
       THEN /\ eresult' = "unsupported_language"
            /\ UNCHANGED <<models, loads, avail>>
       ELSE \E load_ok \in BOOLEAN :
              LET cached == language \in models
                  got == cached \/ load_ok
              IN  /\ loads' = IF cached THEN loads
                              ELSE [loads EXCEPT ![language] = @ + 1]
                  /\ models' = IF got THEN models \cup {language} ELSE models
                  /\ avail' = IF got THEN avail \cup {language} ELSE avail
                  /\ eresult' = IF got THEN "ok" ELSE "model_error"

\* get_model(language)
MmsGetModel(language) ==
    /\ ncalls' = ncalls + 1
    /\ ecall' = [engine |-> "mms_get_model", text |-> << >>,
                 language |-> language, voices |-> << >>]
    /\ UNCHANGED <<xtts_model, invocations, files>>
    /\ IF language \notin avail
       THEN /\ eresult' = "unsupported_language"
            /\ UNCHANGED <<models, loads, avail>>
       ELSE \E load_ok \in BOOLEAN :
              LET cached == language \in models
                  got == cached \/ load_ok
              IN  /\ loads' = IF cached THEN loads
                              ELSE [loads EXCEPT ![language] = @ + 1]
                  /\ models' = IF got THEN models \cup {language} ELSE models
                  /\ eresult' = IF got THEN "ok" ELSE "model_error"
                  /\ UNCHANGED avail

-----------------------------------------------------------------------------
(* utils/textnorm.py: normalize.  A string is a sequence of characters.     *)

MAX_CHARS == 500

\* str.lower() on the letters of the compounds
Lower(c) ==
    CASE c = "W" -> "w" [] c = "E" -> "e" [] c = "L" -> "l" [] c = "S" -> "s"
      [] c = "M" -> "m" [] c = "A" -> "a" [] OTHER -> c

\* text.strip(): what lies between the first and the last non-space character
Strip(t) ==
    LET ns == {k \in 1..Len(t) : ~IsSpace(t[k])}
    IN  IF ns = {} THEN << >>
        ELSE SubSeq(t, CHOOSE k \in ns : \A j \in ns : k <= j,
                       CHOOSE k \in ns : \A j \in ns : j <= k)

\* the positions 1..Len(t), in order
Positions(t) == [k \in 1..Len(t) |-> k]

\* _SPACES.sub(" ", t): every run of whitespace becomes one blank
CollapseSpaces(t) ==
    LET RunStart(k) == ~(IsSpace(t[k]) /\ k > 1 /\ IsSpace(t[k - 1]))
        ks == SelectSeq(Positions(t), RunStart)
    IN  [i \in 1..Len(ks) |-> IF IsSpace(t[ks[i]]) THEN " " ELSE t[ks[i]]]

\* _DUP_PUNCT.sub(r"\1", t): a run of one of ! ? . , becomes a single one
CollapsePunct(t) ==
    LET RunEnd(k) == ~(/\ t[k] \in {"!", "?", ".", ","}
                       /\ k < Len(t)
                       /\ t[k + 1] = t[k])
        ks == SelectSeq(Positions(t), RunEnd)
    IN  [i \in 1..Len(ks) |-> t[ks[i]]]

\* whether pat occurs in t at position k, letters compared without case
MatchesAt(t, k, pat) ==
    /\ k + Len(pat) - 1 <= Len(t)
    /\ \A j \in 1..Len(pat) : Lower(t[k + j - 1]) = pat[j]

\* re.sub(re.escape(pat), rep, t, flags=re.IGNORECASE), from position k on:
\* the leftmost match is replaced and the scan resumes behind it
RECURSIVE ReplaceFrom(_, _, _, _)
ReplaceFrom(t, k, pat, rep) ==
    LET ms == {m \in k..Len(t) : MatchesAt(t, m, pat)}
    IN  IF ms = {} THEN SubSeq(t, k, Len(t))
        ELSE LET first == CHOOSE m \in ms : \A j \in ms : m <= j
             IN  SubSeq(t, k, first - 1) \o rep
                     \o ReplaceFrom(t, first + Len(pat), pat, rep)

WellWell == <<"w", "e", "l", "l", "-", "w", "e", "l", "l">>

WellCommaWell == <<"w", "e", "l", "l", ",", " ", "w", "e", "l", "l">>

SmallSmall == <<"s", "m", "a", "l", "l", " ", "s", "m", "a", "l", "l">>

SmallDashSmall == <<"s", "m", "a", "l", "l", "-", "s", "m", "a", "l", "l">>

\* for a, b in _PIDGIN_COMPOUND: t = re.sub(...)
Pidgin(t) ==
    ReplaceFrom(ReplaceFrom(t, 1, WellWell, WellCommaWell), 1,
                SmallSmall, SmallDashSmall)

\* if not t.endswith((".", "!", "?")): t += "."
EnsureEnd(t) ==
    IF Len(t) > 0 /\ t[Len(t)] \in {".", "!", "?"} THEN t
    ELSE t \o <<".">>

\* if len(t) > MAX_CHARS: t = t[:MAX_CHARS]
Truncate(t) == IF Len(t) > MAX_CHARS THEN SubSeq(t, 1, MAX_CHARS) ELSE t

\* normalize(text) for a str argument
normalize(text) ==
    Truncate(EnsureEnd(Pidgin(CollapsePunct(CollapseSpaces(Strip(text))))))

AppIdle ==
    /\ npc = "idle" /\ ntext = << >> /\ nout = << >>
    /\ voice_dir = {} /\ default_speaker = ""
    /\ nreq = 0
    /\ req = [kind |-> "none"]
    /\ resp = [status |-> 0]

-----------------------------------------------------------------------------
(* backend/app.py: the service.  ENGINE is the one XTTSEngine of the        *)
(* process (xtts_model, loads["xtts"], invocations, files); a path is a     *)
(* file name; VOICE_DIR holds the files of voice_dir.                       *)

\* the file names of the model in the order of Python's str comparison
PathOrder == <<"a.wav", "b.wav", "d.wav", "gone.wav">>

\* files outside VOICE_DIR that exist
OtherFiles == {"d.wav"}

\* Path(p).exists()
Exists(p) == p \in voice_dir \/ p \in OtherFiles

\* sorted([str(p) for p in VOICE_DIR.glob("*.wav")])
Candidates(dir) ==
    LET InDir(p) == p \in dir IN SelectSeq(PathOrder, InDir)

\* a choice that lets the configured default speaker override the request
choose_speaker_default_first(body_files, default, dir) ==
    IF default # "" THEN <<default>>
    ELSE IF body_files # << >> THEN body_files
    ELSE IF Candidates(dir) = << >> THEN << >>
    ELSE <<Candidates(dir)[1]>>

\* speak, lines 48-56: the speaker files handed to the engine; << >> stands
\* for the HTTPException(400) of line 55
choose_speaker(body_files, default, dir) ==
    LET given == body_files
        with_default == IF given = << >> /\ default # ""
                        THEN <<default>> ELSE given
    IN  IF with_default = << >>
        THEN IF Candidates(dir) = << >> THEN << >>
             ELSE <<Candidates(dir)[1]>>
        ELSE with_default

EngineUntouched ==
    UNCHANGED <<models, xtts_model, loads, invocations, files, ncalls,
                ecall, eresult>>

\* a health handler that reads ENGINE.model, which loads the model
health_loading ==
    /\ resp' = [status |-> 200, ok |-> TRUE,
                voice_dir_exists |-> voice_dir # {}]
    /\ xtts_model' = TRUE
    /\ loads' = IF xtts_model THEN loads
                ELSE [loads EXCEPT !["xtts"] = @ + 1]
    /\ UNCHANGED <<models, invocations, files, ncalls, ecall, eresult>>

\* health(): ok, ENGINE.model_name and ENGINE.device (attributes set by the
\* constructor, read without a call) and VOICE_DIR.exists()
health ==
    /\ \E e \in (IF voice_dir = {} THEN BOOLEAN ELSE {TRUE}) :
          resp' = [status |-> 200, ok |-> TRUE, voice_dir_exists |-> e]
    /\ EngineUntouched

\* speak(body) for a body that passed the validation of SpeakIn
speak(body) ==
    LET chosen == choose_speaker(body.speaker_files, default_speaker,
                                 voice_dir)
    IN  IF chosen = << >>
        THEN /\ resp' = [status |-> 400, speaker_wavs |-> << >>]
             /\ EngineUntouched
        ELSE /\ XttsSynthesize(normalize(body.text),
                               [k \in 1..Len(chosen) |-> Exists(chosen[k])])
             /\ \E read_ok \in BOOLEAN :
                   resp' = [status |-> IF eresult' = "ok" /\ read_ok
                                       THEN 200 ELSE 500,
                            speaker_wavs |-> chosen]

\* SpeakIn: text has 1 to 500 characters
ValidBody(body) == Len(body.text) >= 1 /\ Len(body.text) <= 500

-----------------------------------------------------------------------------
(* Bounds and input sets of the checks *)

MaxLen == 4

\* sample codes: 0, 5e-10 (under the silence guard), 2e-9 (over the guard,
\* under the default threshold), -0.6 and 1.0
Samples == {0, 50, 200, -6000 * Tier, ONE}

Buffers == UNION {[1..k -> Samples] : k \in 0..MaxLen}

\* target_peak values in (0,1): 0.3, 0.51 and the default
TargetPeaks == {3000 * Tier, 5100 * Tier, TARGET_PEAK}

\* sr and max_ms values: int(sr * max_ms / 1000) is 0, 1 or 2
Rates == {1, 5, 10}

MaxMsValues == {0, DefaultMaxMs}

\* thresholds: the default 1e-3 and 1e-9
Thresholds == {DefaultThresh, 100}

\* one second of silence at 16000 Hz
SilentSecond == [i \in 1..16000 |-> 0]

\* raw audio the models return in a run of main(): 4.5 seconds of full-scale
\* signal at 10 samples a second, 5.5 seconds of it followed by half a second
\* of silence at 6 samples a second, and no sample at all
Tone(n) == [k \in 1..n |-> ONE]

RawOutputs ==
    {[audio |-> Tone(45), sr |-> 10],
     [audio |-> Tone(33) \o <<0, 0, 0>>, sr |-> 6],
     [audio |-> << >>, sr |-> 10]}

\* raw audio of a direct call of synthesize_segment
SegOutputs == {[audio |-> <<ONE, 0, 0>>, sr |-> 5]}

\* the results of probing the MMS models in a run of main()
AvailChoices == {{}, {"yor"}, MmsLanguages}

\* the nesting at which RecursionError is raised (the interpreter's limit is
\* 1000 frames)
RecursionLimit == 3

-----------------------------------------------------------------------------
(* SpecDsp: one call of _soft_limit, or one call of _trim_trailing_silence  *)
(* followed by a second call on its result                                  *)

RunIdle ==
    /\ script = "none" /\ pc = "idle"
    /\ avail = {} /\ voice_files = 0
    /\ line_no = 0 /\ lang = "" /\ depth = 0
    /\ ret = [audio |-> << >>, sr |-> 0]
    /\ segments = << >> /\ assembled = FALSE
    /\ final_audio = << >> /\ target_sr = 0
    /\ written = FALSE /\ artifact = [audio |-> << >>, sr |-> 0]
    /\ exit_code = -1 /\ outcome = "running" /\ failed = 0

DspInit ==
    /\ RunIdle
    /\ EngIdle
    /\ AppIdle
    /\ dpc = "call"
    /\ y = << >>
    /\ y2 = << >>
    /\ \/ /\ fn = "soft_limit"
          /\ x \in Buffers
          /\ target_peak \in TargetPeaks
          /\ sr = 0 /\ thresh = 0 /\ max_ms = 0
       \/ /\ fn = "trim"
          /\ x \in Buffers
          /\ sr \in Rates
          /\ thresh \in Thresholds
          /\ max_ms \in MaxMsValues
          /\ target_peak = 0
       \/ /\ fn = "trim"
          /\ x = SilentSecond
          /\ sr = 16000
          /\ thresh = DefaultThresh
          /\ max_ms = DefaultMaxMs
          /\ target_peak = 0

CallSoftLimit ==
    /\ dpc = "call" /\ fn = "soft_limit"
    /\ y' = soft_limit(x, target_peak)
    /\ dpc' = "ret"
    /\ UNCHANGED <<fn, x, target_peak, sr, thresh, max_ms, y2, runvars, engvars,
                   appvars>>

CallTrim ==
    /\ dpc = "call" /\ fn = "trim"
    /\ y' = trim_trailing_silence(x, sr, thresh, max_ms)
    /\ dpc' = "ret"
    /\ UNCHANGED <<fn, x, target_peak, sr, thresh, max_ms, y2, runvars, engvars,
                   appvars>>

CallTrimAgain ==
    /\ dpc = "ret" /\ fn = "trim"
    /\ y2' = trim_trailing_silence(y, sr, thresh, max_ms)
    /\ dpc' = "ret2"
    /\ UNCHANGED <<fn, x, target_peak, sr, thresh, max_ms, y, runvars, engvars,
                   appvars>>

DspNext == CallSoftLimit \/ CallTrim \/ CallTrimAgain

SpecDsp == DspInit /\ [][DspNext]_vars

-----------------------------------------------------------------------------
(* SpecSeg: one direct call of synthesize_segment of either script, for      *)
(* every requested language and every availability set                       *)

DspIdle ==
    /\ fn = "none" /\ dpc = "idle" /\ x = << >> /\ target_peak = 0
    /\ sr = 0 /\ thresh = 0 /\ max_ms = 0 /\ y = << >> /\ y2 = << >>

RunFresh ==
    /\ line_no = 0 /\ depth = 0
    /\ ret = [audio |-> << >>, sr |-> 0]
    /\ segments = << >> /\ assembled = FALSE
    /\ final_audio = << >> /\ target_sr = 0
    /\ written = FALSE /\ artifact = [audio |-> << >>, sr |-> 0]
    /\ exit_code = -1 /\ outcome = "running" /\ failed = 0

SegInit ==
    /\ DspIdle
    /\ EngIdle
    /\ AppIdle
    /\ RunFresh
    /\ script \in {"multilang", "simple"}
    /\ pc = "segment"
    /\ lang \in MmsLanguages \cup {"en", "fr"}
    /\ avail \in SUBSET MmsLanguages
    /\ voice_files \in {0, 1}

SegNext ==
    \/ MultiSegEnglish(SegOutputs)
    \/ MultiSegFallback
    \/ MultiSegMms(SegOutputs)
    \/ SimpleSegEnglish(SegOutputs)
    \/ SimpleSegFallback(RecursionLimit)
    \/ SimpleSegMms(SegOutputs)

SpecSeg == SegInit /\ [][SegNext]_vars

-----------------------------------------------------------------------------
(* Spec: one run of main() of either demo script *)

Init ==
    /\ DspIdle
    /\ EngIdle
    /\ AppIdle
    /\ RunFresh
    /\ script \in {"multilang", "simple"}
    /\ pc = "start"
    /\ lang = ""
    /\ avail \in AvailChoices
    /\ voice_files \in {0, 1}

Next ==
    \/ MultiStart
    \/ SimpleStart
    \/ LoopCall
    \/ MultiSegEnglish(RawOutputs)
    \/ MultiSegFallback
    \/ MultiSegMms(RawOutputs)
    \/ SimpleSegEnglish(RawOutputs)
    \/ SimpleSegFallback(RecursionLimit)
    \/ SimpleSegMms(RawOutputs)
    \/ LoopAppend
    \/ LoopExcept
    \/ LoopEnd
    \/ Concatenate
    \/ PostProcess
    \/ WriteFile
    \/ Validate

Spec == Init /\ [][Next]_vars

-----------------------------------------------------------------------------
(* SpecEng: a sequence of synthesize_to_wav calls on an MMSTTSEngine and an  *)
(* XTTSEngine                                                                *)

\* texts: empty, one blank, blanks of several kinds, a word, a padded word
Texts == {<< >>, <<" ">>, <<" ", "\t", "\n">>, <<"h", "i">>, <<" ", "h", "i">>}

\* the language argument: two MMS languages and one outside the model map
CallLanguages == {"yor", "hau", "fr"}

\* speaker_wavs: none, one existing file, one missing file, one of each
VoiceLists == {<< >>, <<TRUE>>, <<FALSE>>, <<TRUE, FALSE>>}

MaxCalls == 2

EngInit ==
    /\ DspIdle
    /\ EngIdle
    /\ AppIdle
    /\ RunFresh
    /\ script = "none" /\ pc = "idle" /\ lang = ""
    /\ avail \in AvailChoices
    /\ voice_files = 0

CallMms ==
    /\ script = "none" /\ constructed /\ ncalls < MaxCalls
    /\ \E text \in Texts, language \in CallLanguages :
          MmsSynthesize(text, language)
    /\ UNCHANGED <<dspvars, appvars, runvars, constructed, library, probes>>

CallXtts ==
    /\ script = "none" /\ ncalls < MaxCalls
    /\ \E text \in Texts, voices \in VoiceLists :
          XttsSynthesize(text, voices)
    /\ UNCHANGED <<dspvars, appvars, runvars, constructed, library, probes>>

EngNext == CallMms \/ CallXtts

SpecEng == EngInit /\ [][EngNext]_vars

\* SpecVoice: calls of the engines, or one run of main()
VoiceInit == EngInit \/ Init

VoiceNext == EngNext \/ Next

SpecVoice == VoiceInit /\ [][VoiceNext]_vars

-----------------------------------------------------------------------------
(* SpecMms: an MMSTTSEngine is constructed and then receives a sequence of   *)
(* is_language_supported, get_model and synthesize_to_wav calls              *)

\* the run variables that no engine call touches, avail apart
RunRest == <<script, pc, voice_files, line_no, lang, depth, ret, segments,
             assembled, final_audio, target_sr, written, artifact,
             exit_code, outcome, failed>>

MmsNew ==
    /\ DspIdle
    /\ RunFresh
    /\ script = "none" /\ pc = "idle" /\ lang = ""
    /\ avail = {} /\ voice_files = 0
    /\ models = {} /\ xtts_model = FALSE
    /\ loads = [m \in ModelNames |-> 0]
    /\ invocations = 0 /\ files = 0 /\ ncalls = 0
    /\ ecall = [engine |-> "none", text |-> << >>, language |-> "",
                voices |-> << >>]
    /\ eresult = "none"
    /\ constructed = FALSE /\ library = FALSE /\ probes = << >>
    /\ AppIdle

CallConstruct ==
    /\ script = "none" /\ ~constructed
    /\ \E lib \in BOOLEAN, outcomes \in [MmsLanguages -> BOOLEAN] :
          Construct(lib, outcomes)
    /\ UNCHANGED <<dspvars, appvars, RunRest>>

CallIsSupported ==
    /\ script = "none" /\ constructed /\ ncalls < MaxCalls
    /\ \E language \in CallLanguages : MmsIsSupported(language)
    /\ UNCHANGED <<dspvars, appvars, runvars, constructed, library, probes>>

CallGetModel ==
    /\ script = "none" /\ constructed /\ ncalls < MaxCalls
    /\ \E language \in CallLanguages : MmsGetModel(language)
    /\ UNCHANGED <<dspvars, appvars, RunRest, constructed, library, probes>>

MmsNext == CallConstruct \/ CallIsSupported \/ CallGetModel \/ CallMms

SpecMms == MmsNew /\ [][MmsNext]_vars

-----------------------------------------------------------------------------
(* SpecNorm: one call of normalize, for every short string over a small     *)
(* alphabet, for the pidgin compounds and for strings around MAX_CHARS      *)

MaxText == 3

NormAlphabet == {" ", "a", ".", "!"}

Letters(n) == [k \in 1..n |-> "a"]

NormTexts ==
    UNION {[1..k -> NormAlphabet] : k \in 0..MaxText}
      \cup {<<"W", "e", "l", "l", "-", "w", "e", "l", "l">>,
            <<"s", "m", "a", "l", "l", " ", " ", "S", "M", "A", "L", "L", "?", "?">>,
            Letters(MAX_CHARS - 1), Letters(MAX_CHARS),
            Letters(MAX_CHARS + 1),
            Letters(MAX_CHARS - 1) \o <<"!">>,
            Letters(MAX_CHARS - 9) \o WellWell}

NormInit ==
    /\ DspIdle
    /\ RunIdle
    /\ EngIdle
    /\ voice_dir = {} /\ default_speaker = ""
    /\ nreq = 0 /\ req = [kind |-> "none"] /\ resp = [status |-> 0]
    /\ npc = "call"
    /\ ntext \in NormTexts
    /\ nout = << >>

CallNormalize ==
    /\ npc = "call"
    /\ nout' = normalize(ntext)
    /\ npc' = "ret"
    /\ UNCHANGED <<ntext, voice_dir, default_speaker, nreq, req, resp,
                   dspvars, runvars, engvars>>

NormNext == CallNormalize

SpecNorm == NormInit /\ [][NormNext]_vars

-----------------------------------------------------------------------------
(* SpecApp: the service handles up to MaxRequests requests, for every       *)
(* content of VOICE_DIR and every setting of NAIJA_DEFAULT_SPEAKER          *)

MaxRequests == 2

\* request texts: empty and too long (refused by SpeakIn), blank, plain
BodyTexts == {<< >>, <<" ">>, <<"h", "i">>, Letters(MAX_CHARS + 1)}

\* speaker_files: None or [], one name, one name that never exists, two names
BodyFiles == {<< >>, <<"a.wav">>, <<"gone.wav">>, <<"b.wav", "a.wav">>}

SpeakBodies ==
    [text : BodyTexts, language : {"en"}, speaker_files : BodyFiles]

AppInit ==
    /\ DspIdle
    /\ RunIdle
    /\ EngIdle
    /\ npc = "idle" /\ ntext = << >> /\ nout = << >>
    /\ voice_dir \in SUBSET {"a.wav", "b.wav"}
    /\ default_speaker \in {"", "d.wav", "gone.wav"}
    /\ nreq = 0
    /\ req = [kind |-> "none"]
    /\ resp = [status |-> 0]

AppFrame ==
    <<dspvars, runvars, constructed, library, probes, npc, ntext, nout,
      voice_dir, default_speaker>>

\* GET /health
CallHealth ==
    /\ nreq < MaxRequests
    /\ nreq' = nreq + 1
    /\ req' = [kind |-> "health"]
    /\ health
    /\ UNCHANGED AppFrame

\* POST /speak: a body SpeakIn refuses is answered 422 before speak runs
CallSpeak ==
    /\ nreq < MaxRequests
    /\ nreq' = nreq + 1
    /\ \E body \in SpeakBodies :
          /\ req' = [kind |-> "speak", body |-> body]
          /\ IF ValidBody(body) THEN speak(body)
             ELSE /\ resp' = [status |-> 422, speaker_wavs |-> << >>]
                  /\ EngineUntouched
    /\ UNCHANGED AppFrame

AppNext == CallHealth \/ CallSpeak

SpecApp == AppInit /\ [][AppNext]_vars

-----------------------------------------------------------------------------
(* SpecAsm: the assembly step of main() and what follows it, for every short *)
(* list of segments                                                          *)

\* the segments of an assembly: two buffers at 2 samples a second, one at 1
\* sample a second, one without samples, a second of silence at 12 samples a
\* second and five seconds of signal at 11 samples a second
AsmSegments ==
    {[audio |-> <<1000 * Tier, 2000 * Tier>>, sr |-> 2],
     [audio |-> <<3000 * Tier, -4000 * Tier, 5000 * Tier>>, sr |-> 2],
     [audio |-> <<6000 * Tier, -7000 * Tier>>, sr |-> 1],
     [audio |-> << >>, sr |-> 2],
     [audio |-> [k \in 1..12 |-> 0], sr |-> 12],
     [audio |-> [k \in 1..55 |-> 5000 * Tier], sr |-> 11]}

MaxSegs == 3

AsmLists == UNION {[1..k -> AsmSegments] : k \in 0..MaxSegs}

AsmInit ==
    /\ DspIdle
    /\ EngIdle
    /\ AppIdle
    /\ script \in {"multilang", "simple"}
    /\ pc = "concat"
    /\ avail = MmsLanguages /\ voice_files = 1
    /\ line_no = 0 /\ lang = "" /\ depth = 0
    /\ ret = [audio |-> << >>, sr |-> 0]
    /\ segments \in AsmLists
    /\ assembled = FALSE
    /\ final_audio = << >> /\ target_sr = 0
    /\ written = FALSE /\ artifact = [audio |-> << >>, sr |-> 0]
    /\ exit_code = -1 /\ outcome = "running" /\ failed = 0

AsmNext ==
    \/ Concatenate
    \/ PostProcess
    \/ WriteFile
    \/ Validate

SpecAsm == AsmInit /\ [][AsmNext]_vars

-----------------------------------------------------------------------------
(* SpecVal: the write and the validation block of main(), for finalized      *)
(* buffers of 20 to 40 seconds at one sample a second with a peak of 0.5,    *)
(* 0.9, 0.95 or 1.0                                                          *)

ValLengths == 20..40

ValPeaks == {5000 * Tier, 9000 * Tier, 9500 * Tier, ONE}

ValInit ==
    /\ DspIdle
    /\ EngIdle
    /\ AppIdle
    /\ script \in {"multilang", "simple"}
    /\ pc = "write"
    /\ avail = MmsLanguages /\ voice_files = 1
    /\ line_no = 0 /\ lang = "" /\ depth = 0
    /\ ret = [audio |-> << >>, sr |-> 0]
    /\ segments = << >>
    /\ assembled = TRUE
    /\ \E n \in ValLengths, a \in ValPeaks : final_audio = [k \in 1..n |-> a]
    /\ target_sr = 1
    /\ written = FALSE /\ artifact = [audio |-> << >>, sr |-> 0]
    /\ exit_code = -1 /\ outcome = "running" /\ failed = 0

ValNext == WriteFile \/ Validate

SpecVal == ValInit /\ [][ValNext]_vars

-----------------------------------------------------------------------------
(* Claims about the post-processing functions, checked under SpecDsp *)

SoftLimitReturned == dpc = "ret" /\ fn = "soft_limit"

TrimReturned == dpc \in {"ret", "ret2"} /\ fn = "trim"

\* C1 as stated: for every non-empty buffer whose max_abs exceeds target_peak
\* (target_peak in (0,1)), the maximum absolute sample of the buffer that
\* _soft_limit returns is at most target_peak.
C1_PeakAtMostTarget ==
    (SoftLimitReturned /\ Len(x) > 0 /\ MaxAbs(x) > target_peak)
        => MaxAbs(y) <= target_peak

\* C1 amended: under the same precondition the returned maximum is at most
\* target_peak when target_peak is at least 0.51 (the default -1 dBFS target
\* included); for every target_peak in (0,1) it is at most 1.1 * target_peak
\* and below 1.0.
C1_PeakAtMostTargetFrom051 ==
    (SoftLimitReturned /\ Len(x) > 0 /\ MaxAbs(x) > target_peak)
        => /\ target_peak >= 5100 * Tier => MaxAbs(y) <= target_peak
           /\ 10 * Hi(MaxAbs(y)) <= 11 * Hi(target_peak)
           /\ MaxAbs(y) < ONE

C1_Witness ==
    /\ SoftLimitReturned /\ Len(x) > 0 /\ MaxAbs(x) > target_peak
    /\ target_peak = TARGET_PEAK
    /\ MaxAbs(y) < target_peak
    /\ MaxAbs(y) > 0

\* C2 as stated: trimming is idempotent; _trim_trailing_silence applied to its
\* own output with the same parameters returns that output.
C2_TrimIdempotent == dpc = "ret2" => y2 = y

\* C3 as stated: when the buffer holds a sample above the threshold, the
\* samples that follow the last above-threshold sample of the trimmed buffer
\* number at most int(sr * max_ms / 1000).
C3_TailAtMostMaxMs ==
    (TrimReturned /\ Where(x, thresh) # {} /\ Where(y, thresh) # {})
        => Len(y) - (SetMax(Where(y, thresh)) + 1) <= TailSamples(sr, max_ms)

\* C4: for every buffer, empty or not, the trimmed buffer is a prefix of the
\* input, no longer than the input; an empty input gives an empty output.
C4_TrimIsPrefix ==
    TrimReturned
        => /\ Len(y) <= Len(x)
           /\ \A i \in 1..Len(y) : y[i] = x[i]
           /\ (Len(x) = 0 => Len(y) = 0)

C4_Witness ==
    /\ TrimReturned
    /\ Where(x, thresh) # {}
    /\ TailSamples(sr, max_ms) >= 1
    /\ 0 < Len(y) /\ Len(y) < Len(x)
    /\ x[1] = 0

\* C5: a non-empty buffer with no sample above the threshold is cut to its
\* first int(sr * max_ms / 1000) samples (the whole buffer when it is
\* shorter); 16000 silent samples at 16000 Hz with max_ms = 200 give 3200.
C5_SilentCutToTail ==
    (TrimReturned /\ Len(x) > 0 /\ Where(x, thresh) = {})
        => /\ Len(y) = Min(Len(x), (sr * max_ms) \div 1000)
           /\ \A i \in 1..Len(y) : y[i] = x[i]
           /\ (Len(x) = 16000 /\ sr = 16000 /\ max_ms = 200 => Len(y) = 3200)

C5_Witness ==
    /\ TrimReturned /\ Where(x, thresh) = {}
    /\ Len(x) = 16000 /\ sr = 16000 /\ max_ms = 200
    /\ Len(y) = 3200

\* C6: an empty buffer, or one whose maximum absolute sample is below the
\* silence guard 1e-9, is returned by _soft_limit with every sample unchanged.
C6_NoOpBelowGuard ==
    (SoftLimitReturned /\ (Len(x) = 0 \/ MaxAbs(x) < SilenceGuard)) => y = x

C6_Witness ==
    /\ SoftLimitReturned
    /\ Len(x) > 0 /\ MaxAbs(x) < SilenceGuard /\ MaxAbs(x) > 0
    /\ y = x

-----------------------------------------------------------------------------
(* Claims about synthesize_segment, checked under SpecSeg *)

\* C7 as stated: for every requested language and every availability set,
\* synthesize_segment performs at most one fallback step; it never calls
\* itself more than once.
C7_AtMostOneFallback == depth <= 1

-----------------------------------------------------------------------------
(* Claims about a run of main(), checked under Spec *)

\* C8: if the synthesis of segment i fails, the run is aborted: no later
\* segment is synthesized, nothing is assembled or post-processed, no artifact
\* is written, and the run ends with exit code 1.
C8_FailureAborts ==
    failed # 0
        => /\ pc = "done"
           /\ exit_code = 1
           /\ line_no = failed
           /\ Len(segments) = failed - 1
           /\ ~assembled /\ final_audio = << >>
           /\ ~written

C8_Witness ==
    /\ failed = 3
    /\ pc = "done" /\ exit_code = 1
    /\ Len(segments) = 2
    /\ ~written

\* C9: the artifact is written before the validation verdict is decided and
\* is present, holding the finalized buffer, when the run returns 0 and when
\* it returns 1 for a duration or peak violation.
C9_WrittenBeforeVerdict ==
    (pc = "validate" \/ outcome \in {"ok", "duration", "peak"})
        => /\ written
           /\ artifact = [audio |-> wav_roundtrip(final_audio), sr |-> target_sr]
           /\ Len(segments) = Len(LINES)

C9_Witness ==
    /\ pc = "done" /\ outcome = "duration" /\ exit_code = 1
    /\ written
    /\ Len(artifact.audio) > 0

\* C10: the run ends with exit code 0 if and only if every segment was
\* synthesized, the duration of the finalized buffer lies in [27.0, 33.0]
\* seconds, bounds included, and its peak level is at most -0.5 dBFS; in
\* every other case it ends with 1.
C10_ExitCode ==
    pc = "done"
        => /\ exit_code \in {0, 1}
           /\ exit_code = 0 <=>
                /\ Len(segments) = Len(LINES)
                /\ 27 * target_sr <= Len(final_audio)
                /\ Len(final_audio) <= 33 * target_sr
                /\ SetMax({Abs(final_audio[k]) : k \in 1..Len(final_audio)})
                     <= 9440 * Tier

C10_Witness ==
    /\ pc = "done" /\ exit_code = 0
    /\ Len(final_audio) = 27 * target_sr

C10_UpperBoundReached ==
    /\ pc = "done" /\ exit_code = 0
    /\ Len(final_audio) = 33 * target_sr

\* the sample rates tests/test_demo_audio.py accepts
AllowedRates == {16000, 22050, 24000}

\* C11 as stated: whenever the run returns 0, the sample rate of the written
\* artifact is one of 16000, 22050 and 24000.
C11_PassRateAllowed ==
    (pc = "done" /\ exit_code = 0) => artifact.sr \in AllowedRates

\* C12: every written artifact, whatever the exit code, has a maximum
\* absolute sample strictly below 1.0 and at most 0.9440 (-0.5 dBFS).
C12_ArtifactPeak ==
    written
        => \A k \in 1..Len(artifact.audio) :
              /\ Abs(artifact.audio[k]) < 10000 * Tier
              /\ Abs(artifact.audio[k]) <= 9440 * Tier

C12_Witness ==
    /\ written /\ pc = "done" /\ exit_code = 1
    /\ \E k \in 1..Len(artifact.audio) : Abs(artifact.audio[k]) = 9000 * Tier

\* C14: the lines are synthesized strictly in list order, one at a time: line
\* k is submitted only after lines 1..k-1 have each returned a buffer, and
\* the loop comes back for the next line only by appending the buffer of the
\* current one, so that no line is submitted twice.
C14_InOrderOnce ==
    [][ /\ (pc = "loop" /\ pc' = "segment")
            => /\ line_no' = line_no
               /\ Len(segments) = line_no - 1
               /\ failed = 0
               /\ lang' = LINES[line_no]
        /\ (pc # "loop" /\ pc' = "loop")
            => \/ pc = "start" /\ line_no' = 1 /\ segments' = << >>
               \/ /\ pc = "seg_return"
                  /\ line_no' = line_no + 1
                  /\ segments' = Append(segments, ret)
        /\ (line_no' # line_no) => pc' = "loop"
      ]_vars

C14_Witness ==
    /\ pc = "segment" /\ depth = 0
    /\ line_no = 3 /\ Len(segments) = 2
    /\ lang = LINES[3]

\* C20 as stated: the final normalization never raises the peak of the
\* assembled buffer: the peak of the buffer handed to sf.write is at most the
\* peak of the concatenation of the segments.
C20_GainAtMostOne ==
    pc = "write"
        => MaxAbs(final_audio) <= MaxAbs(concat_from(segments, 1, target_sr))

-----------------------------------------------------------------------------
(* Claims about the assembly step, checked under SpecAsm *)

\* segment k as it enters the concatenation
Piece(k) ==
    IF segments[k].sr # segments[1].sr
    THEN resample(segments[k].audio, segments[k].sr, segments[1].sr)
    ELSE segments[k].audio

\* the number of samples of the segments before segment k
RECURSIVE Offset(_)
Offset(k) == IF k <= 1 THEN 0 ELSE Offset(k - 1) + Len(Piece(k - 1))

\* C13: the assembled buffer holds the segments in the order of the list:
\* segment k, resampled if its rate differs from the target, occupies the
\* positions after those of segments 1..k-1, and the buffer holds nothing
\* else.
C13_OrderPreserved ==
    pc = "post"
        => /\ Len(final_audio) = Offset(Len(segments) + 1)
           /\ \A k \in 1..Len(segments) :
                 \A j \in 1..Len(Piece(k)) :
                    final_audio[Offset(k) + j] = Piece(k)[j]

C13_Witness ==
    /\ pc = "post" /\ Len(segments) = 3
    /\ segments[1].sr # segments[2].sr
    /\ Len(segments[2].audio) > 0
    /\ segments[1].audio # segments[3].audio
    /\ Len(segments[1].audio) > 0 /\ Len(segments[3].audio) > 0

\* C15: an empty list of segments ends the run at the assembly step with
\* exit code 1 for the lack of segments; nothing is concatenated and no
\* artifact is written.
C15_EmptyListFails ==
    (segments = << >> /\ pc # "concat")
        => /\ pc = "done" /\ exit_code = 1 /\ outcome = "no_segments"
           /\ ~assembled /\ final_audio = << >>
           /\ ~written

C15_Witness ==
    /\ segments = << >>
    /\ pc = "done" /\ exit_code = 1 /\ outcome = "no_segments"

-----------------------------------------------------------------------------
(* Claims about the validation block, checked under SpecVal *)

-----------------------------------------------------------------------------
(* Further claims about synthesize_segment, checked under SpecSeg *)

\* C16 as stated: when synthesize_segment of simple_demo returns after a
\* fallback to "yor", the value it returns carries a language tag that
\* records the fallback.
C16_FallbackTagged ==
    (script = "simple" /\ pc = "seg_return" /\ depth >= 1)
        => /\ "language" \in DOMAIN ret
           /\ ret.language = "yor"

-----------------------------------------------------------------------------
(* Claims about the engines' synthesize_to_wav, checked under SpecEng and   *)
(* SpecVoice                                                                *)

\* C17: a call of synthesize_to_wav of either engine with a text that is
\* empty or holds only whitespace ends with the text error, and it loads no
\* model, runs no model, creates no file and leaves the engine's cache and
\* availability set as they were.
C17_BlankTextRejected ==
    [][ (/\ ncalls' = ncalls + 1
         /\ \A k \in 1..Len(ecall'.text) : ecall'.text[k] \in {" ", "\t", "\n"})
            => /\ eresult' = "text_required"
               /\ UNCHANGED <<models, xtts_model, loads, invocations, files,
                              avail>>
      ]_vars

C17_Witness ==
    /\ ncalls = 2 /\ eresult = "text_required"
    /\ ecall.text = <<" ", "\t", "\n">>
    /\ ecall.engine = "mms" /\ ecall.language \in avail
    /\ files = 1

\* C18: a call of XTTSEngine.synthesize_to_wav without a reference voice
\* ends with an error (the missing-voice error when the text is valid)
\* without loading or running the model and without creating a file; and a
\* run of multilang_demo.main() without voice files ends with exit code 1
\* before any segment is synthesized or any artifact written.
C18_NoVoiceRejected ==
    /\ [][ (/\ ncalls' = ncalls + 1
            /\ ecall'.engine = "xtts"
            /\ ecall'.voices = << >>)
               => /\ eresult' \in {"no_speaker_wavs", "text_required"}
                  /\ (\E k \in 1..Len(ecall'.text) :
                         ecall'.text[k] \notin {" ", "\t", "\n"})
                       => eresult' = "no_speaker_wavs"
                  /\ UNCHANGED <<xtts_model, loads, invocations, files>>
         ]_vars
    /\ [](script = "multilang" /\ voice_files = 0 /\ pc # "start"
             => /\ pc = "done" /\ exit_code = 1
                /\ outcome = "no_voice_files"
                /\ line_no = 0 /\ segments = << >>
                /\ ~assembled /\ ~written)

C18_Witness ==
    /\ ecall.engine = "xtts" /\ ecall.voices = << >>
    /\ ecall.text = <<"h", "i">>
    /\ eresult = "no_speaker_wavs"
    /\ ncalls = 2 /\ xtts_model /\ invocations = 1 /\ files = 1

C18_DemoWithoutVoicesReached ==
    /\ script = "multilang" /\ voice_files = 0
    /\ pc = "done" /\ exit_code = 1 /\ outcome = "no_voice_files"

-----------------------------------------------------------------------------
(* Further claims about the assembly and the final trim, checked under      *)
(* SpecAsm                                                                  *)

\* C23: a segment whose rate equals the target rate enters the assembled
\* buffer with exactly its own samples, in the same number.
C23_SameRateUntouched ==
    pc = "post"
        => \A k \in 1..Len(segments) :
              segments[k].sr = target_sr
                 => /\ Offset(k + 1) = Offset(k) + Len(segments[k].audio)
                    /\ SubSeq(final_audio, Offset(k) + 1, Offset(k + 1))
                         = segments[k].audio

C23_Witness ==
    /\ pc = "post" /\ Len(segments) = 3
    /\ segments[2].sr # target_sr /\ Len(segments[2].audio) > 0
    /\ segments[3].sr = target_sr /\ Len(segments[3].audio) = 3

\* C25 as stated: the buffer the final trim leaves is
\* _trim_trailing_silence(buffer, target_sr, 1e-3, 200) of the peak-limited
\* assembled buffer, also when that buffer is silent.
C25_DemoTrimIsTrimmer ==
    pc = "write"
        => final_audio
             = trim_trailing_silence(
                   peak_limit(concat_from(segments, 1, target_sr)),
                   target_sr, DefaultThresh, DefaultMaxMs)

\* the sum of the lengths of segments 1..k at the rate of the first one
RECURSIVE FloorSum(_)
FloorSum(k) ==
    IF k = 0 THEN 0
    ELSE FloorSum(k - 1)
           + (IF segments[k].sr = segments[1].sr THEN Len(segments[k].audio)
              ELSE (Len(segments[k].audio) * segments[1].sr)
                      \div segments[k].sr)

\* C26 as stated: the target rate is the rate of the first segment, the
\* artifact is written at that rate, and the assembled length is the sum of
\* len_i for the segments at the target rate and of
\* floor(len_i * target / rate_i) for the others.
C26_LengthIsFloorSum ==
    /\ pc = "post"
         => /\ target_sr = segments[1].sr
            /\ Len(final_audio) = FloorSum(Len(segments))
    /\ written => artifact.sr = segments[1].sr

-----------------------------------------------------------------------------
(* A further claim about _trim_trailing_silence, checked under SpecDsp *)

\* C27 as stated: when the buffer holds a sample above the threshold, the
\* trimmed buffer still holds the last such sample and every sample before
\* it.
C27_AudibleRetained ==
    (dpc = "ret" /\ fn = "trim")
        => \A k \in 1..Len(x) :
              Abs(x[k]) > thresh
                 => /\ Len(y) >= k
                    /\ SubSeq(y, 1, k) = SubSeq(x, 1, k)

-----------------------------------------------------------------------------
(* Claims about the MMSTTSEngine object, checked under SpecMms *)

\* C21: once the engine is constructed, no call of is_language_supported,
\* get_model or synthesize_to_wav, whether it succeeds or fails, changes the
\* set of available languages.
C21_AvailabilityFixed ==
    [][constructed => (constructed' /\ avail' = avail)]_vars

C21_Witness ==
    /\ constructed /\ ncalls = 2
    /\ ecall.engine = "mms_get_model" /\ eresult = "model_error"
    /\ ecall.language \in avail /\ avail # MmsLanguages
    /\ models # {}

\* C22: after construction a language is available exactly when its own
\* probe succeeded; with the library present every key of the model map was
\* probed once, in the order of the map, whatever the other probes did; the
\* set holds languages of the model map only and is empty when the library
\* is missing.
C22_ProbesIndependent ==
    constructed
        => /\ avail \subseteq {"yor", "hau", "pcm", "ibo", "igb"}
           /\ ~library => (avail = {} /\ probes = << >>)
           /\ library
                => /\ Len(probes) = 5
                   /\ \A k \in 1..5 : probes[k].lang = ProbeOrder[k]
                   /\ \A k \in 1..5 : probes[k].lang \in avail <=> probes[k].ok

C22_Witness ==
    /\ constructed /\ library
    /\ ~probes[1].ok /\ probes[2].ok /\ ~probes[4].ok /\ probes[5].ok
    /\ avail = {"hau", "pcm", "igb"}

\* C28: the cached models belong to available languages; a cached model is
\* never dropped and its constructor is not called again; a call rejected
\* for an unsupported language or an empty text calls no constructor and
\* leaves the cache as it was.
C28_CacheDiscipline ==
    /\ [](models \subseteq avail)
    /\ [][ /\ models \subseteq models'
           /\ \A m \in models : loads'[m] = loads[m]
           /\ (/\ ncalls' = ncalls + 1
               /\ eresult' \in {"unsupported_language", "text_required"})
                 => (models' = models /\ loads' = loads)
         ]_vars

C28_Witness ==
    /\ ncalls = 2 /\ models = {"yor"} /\ loads["yor"] = 1
    /\ ecall.engine = "mms" /\ ecall.language = "yor" /\ eresult = "ok"
    /\ invocations = 2

-----------------------------------------------------------------------------
(* A claim about normalize, checked under SpecNorm *)

\* C30 as stated: for every input string, the string normalize returns ends
\* with one of '.', '!' and '?'.
C30_EndsWithTerminator ==
    npc = "ret"
        => /\ Len(nout) > 0
           /\ nout[Len(nout)] \in {".", "!", "?"}

-----------------------------------------------------------------------------
(* Claims about the service, checked under SpecApp *)

EngineFailures ==
    {"text_required", "no_speaker_wavs", "speaker_not_found", "model_error",
     "synthesis_error"}

\* C24: every GET /health is answered 200 with ok = true, whatever the state
\* of the engine (model not loaded, loaded, after failed /speak requests), and
\* handling it neither loads the model nor changes any engine state.
C24_HealthHarmless ==
    [][(nreq' = nreq + 1 /\ req'.kind = "health")
          => /\ resp'.status = 200
             /\ resp'.ok = TRUE
             /\ UNCHANGED <<models, xtts_model, loads, invocations, files,
                            ncalls, ecall, eresult>>]_vars

\* a health request answered after a /speak request that failed in the engine
\* with the model loaded
C24_Witness ==
    /\ nreq = 2
    /\ req.kind = "health"
    /\ resp.status = 200
    /\ xtts_model
    /\ eresult = "synthesis_error"

\* a health request answered while the model was never loaded
C24_UnloadedReached ==
    /\ req.kind = "health"
    /\ resp.status = 200
    /\ ~xtts_model
    /\ loads["xtts"] = 0

\* C29: a /speak request with a valid body hands the engine the request's
\* speaker_files when non-empty, else the default speaker when set, else the
\* first WAV of the voice directory in sorted order; with none of the three
\* it answers 400 and the engine is not invoked; every failure of the engine
\* is answered 500.
C29_VoicePrecedence ==
    [][(nreq' = nreq + 1 /\ req'.kind = "speak" /\ resp'.status # 422)
          => LET given == req'.body.speaker_files
                 first == CHOOSE k \in 1..Len(PathOrder) :
                            /\ PathOrder[k] \in voice_dir
                            /\ \A j \in 1..(k - 1) :
                                  PathOrder[j] \notin voice_dir
                 expected ==
                    IF Len(given) > 0 THEN given
                    ELSE IF default_speaker # "" THEN <<default_speaker>>
                    ELSE IF voice_dir # {} THEN <<PathOrder[first]>>
                    ELSE << >>
             IN  IF expected = << >>
                 THEN /\ resp'.status = 400
                      /\ UNCHANGED <<models, xtts_model, loads, invocations,
                                     files, ncalls, ecall, eresult>>
                 ELSE /\ ncalls' = ncalls + 1
                      /\ ecall'.engine = "xtts"
                      /\ resp'.speaker_wavs = expected
                      /\ Len(ecall'.voices) = Len(expected)
                      /\ resp'.status \in {200, 500}
                      /\ eresult' \in EngineFailures
                            => resp'.status = 500]_vars

\* the voice directory was the last resort and its first file in sorted order
\* was used, with success
C29_Witness ==
    /\ req.kind = "speak"
    /\ req.body.speaker_files = << >>
    /\ default_speaker = ""
    /\ voice_dir = {"a.wav", "b.wav"}
    /\ resp.status = 200
    /\ resp.speaker_wavs = <<"a.wav">>
    /\ eresult = "ok"

\* the request's files were used although a default speaker is configured
C29_RequestOverDefaultReached ==
    /\ req.kind = "speak"
    /\ req.body.speaker_files = <<"b.wav", "a.wav">>
    /\ default_speaker = "d.wav"
    /\ resp.status = 200
    /\ resp.speaker_wavs = <<"b.wav", "a.wav">>

\* nothing to choose from: 400, and the engine was never called
C29_NoVoiceReached ==
    /\ req.kind = "speak"
    /\ resp.status = 400
    /\ ncalls = 0

\* an engine failure answered 500
C29_EngineFailureReached ==
    /\ req.kind = "speak"
    /\ resp.status = 500
    /\ eresult = "speaker_not_found"

=============================================================================
